---- MODULE Spec2Model ----
(***************************************************************************)
(* bookmark-manager: the bookmark storage service (Save, Delete, GetByID,  *)
(* List, SearchByCategory, SearchByFolder over a soft-deleting table), the *)
(* add command, and the interactive list view with its delete dialog.      *)
(*                                                                         *)
(* Strings are sequences of one-character strings, so that SQL LIKE,       *)
(* SQL =, ORDER BY and strings.Contains are computed character by          *)
(* character as SQLite and Go compute them.                                *)
(***************************************************************************)
EXTENDS Integers, Sequences, FiniteSets, Bags, TLC

VARIABLES
    table,      \* the bookmarks table: row i has primary key i
    last,       \* the call that returned last, with its arguments and results
    m,          \* the list view's Model, as the last Update returned it
    inflight,   \* the commands running and the messages not yet delivered (a bag)
    running,    \* whether the list view's program runs
    pressed,    \* the keys the list view has received
    adds        \* the add commands running as separate processes

tuiVars == <<m, inflight, running, pressed, adds>>

(***************************************************************************)
(* Bounds                                                                  *)
(***************************************************************************)
\* rows the table may hold (soft delete never removes a row)
MaxRows == 2
\* List is called with limit and offset in -1 .. MaxPage
MaxPage == 2
\* commands and messages of the list view in flight at once
MaxInFlight == 2
\* characters typed into the list view's filter
MaxFilterLen == 1
\* keys pressed in one run of the list view
MaxKeys == 4
\* add commands running at the same time
MaxAdds == 2

(***************************************************************************)
(* Strings                                                                 *)
(***************************************************************************)
Empty == << >>

\* the byte value of a character (SQLite BINARY collation, Go string order)
Code(c) ==
    CASE c = " " -> 32
      [] c = "%" -> 37
      [] c = "/" -> 47
      [] c = "A" -> 65
      [] c = "B" -> 66
      [] c = "_" -> 95
      [] c = "a" -> 97
      [] c = "b" -> 98
      [] c = "d" -> 100
      [] c = "e" -> 101
      [] c = "f" -> 102
      [] c = "l" -> 108
      [] c = "t" -> 116
      [] c = "u" -> 117

\* ASCII lower-casing of one character
LowerChar(c) ==
    CASE c = "A" -> "a"
      [] c = "B" -> "b"
      [] OTHER -> c

ToLower(s) == [i \in 1..Len(s) |-> LowerChar(s[i])]

Tail0(s) == SubSeq(s, 2, Len(s))

\* s < t in byte order
RECURSIVE StrLess(_, _)
StrLess(s, t) ==
    IF t = Empty THEN FALSE
    ELSE IF s = Empty THEN TRUE
    ELSE IF s[1] # t[1] THEN Code(s[1]) < Code(t[1])
    ELSE StrLess(Tail0(s), Tail0(t))

\* strings.Contains(s, sub)
Contains(s, sub) ==
    \E i \in 0..(Len(s) - Len(sub)) : SubSeq(s, i + 1, i + Len(sub)) = sub

\* SQLite "str LIKE pat" without ESCAPE: % matches any run of characters,
\* _ matches any one character, other characters match ignoring ASCII case
RECURSIVE LikeMatch(_, _)
LikeMatch(pat, str) ==
    IF pat = Empty THEN str = Empty
    ELSE IF pat[1] = "%"
        THEN \E k \in 0..Len(str) :
                LikeMatch(Tail0(pat), SubSeq(str, k + 1, Len(str)))
    ELSE IF str = Empty THEN FALSE
    ELSE IF pat[1] = "_" THEN LikeMatch(Tail0(pat), Tail0(str))
    ELSE /\ LowerChar(pat[1]) = LowerChar(str[1])
         /\ LikeMatch(Tail0(pat), Tail0(str))

(***************************************************************************)
(* Values the operations are called with                                   *)
(***************************************************************************)
\* working directories the add command runs in (absolute paths)
AbsPaths == { <<"/", "A">>, <<"/", "a", "b">> }

\* folder fields of the bookmarks handed to Save
FolderArgs == AbsPaths \cup { Empty }

\* category labels: free-form, possibly empty
CategoryArgs == { Empty, <<"a">> }

\* category arguments of SearchByCategory (two of them never stored)
CategoryQueries == CategoryArgs \cup { <<"A">>, <<"b">> }

\* folderPath arguments of SearchByFolder
FolderQueries ==
    AbsPaths \cup { Empty, <<"/", "a">>, <<"b">>, <<"/", "_">>, <<"a", "/">> }

(***************************************************************************)
(* The table and its queries                                               *)
(***************************************************************************)
Min(a, b) == IF a < b THEN a ELSE b
Max(a, b) == IF a > b THEN a ELSE b

\* the bookmark struct a query fills from row id
Bookmark(t, id) == [ID |-> id, Folder |-> t[id].Folder, Category |-> t[id].Category]

\* (mutant) the soft-delete scope left out, as with Unscoped()
NotDeletedUnscoped(t) == DOMAIN t

\* gorm.DeletedAt: every query carries "deleted_at IS NULL"
NotDeleted(t) == { id \in DOMAIN t : ~t[id].Deleted }

\* ORDER BY category, folder (ties in primary-key order)
RowBefore(t, i, j) ==
    \/ StrLess(t[i].Category, t[j].Category)
    \/ /\ t[i].Category = t[j].Category
       /\ \/ StrLess(t[i].Folder, t[j].Folder)
          \/ t[i].Folder = t[j].Folder /\ i < j

RECURSIVE OrderIds(_, _)
OrderIds(t, ids) ==
    IF ids = {} THEN << >>
    ELSE LET first == CHOOSE i \in ids : \A j \in ids \ {i} : RowBefore(t, i, j)
         IN  <<first>> \o OrderIds(t, ids \ {first})

\* Find(&bookmarks) over the rows in ids
Find(t, ids) ==
    LET o == OrderIds(t, ids) IN [k \in 1..Len(o) |-> Bookmark(t, o[k])]

\* (mutant) the offset dropped from the query
PageNoOffset(rows, limit, offset) ==
    SubSeq(rows, 1, IF limit > 0 THEN Min(Len(rows), limit) ELSE Len(rows))

\* LIMIT/OFFSET as List sets them: each only when > 0
Page(rows, limit, offset) ==
    LET skip == IF offset > 0 THEN offset ELSE 0
        upto == IF limit > 0 THEN Min(Len(rows), skip + limit) ELSE Len(rows)
    IN  SubSeq(rows, skip + 1, upto)

List(t, limit, offset) == Page(Find(t, NotDeleted(t)), limit, offset)

\* (mutant) WHERE category LIKE ?, which ignores ASCII case
SearchByCategoryLike(t, category) ==
    Find(t, { id \in NotDeleted(t) : LikeMatch(category, t[id].Category) })

\* WHERE category = ?
SearchByCategory(t, category) ==
    Find(t, { id \in NotDeleted(t) : t[id].Category = category })

\* (mutant) the search also returns the rows marked deleted
SearchByFolderUnscoped(t, folderPath) ==
    Find(t, { id \in DOMAIN t :
                LikeMatch(<<"%">> \o folderPath \o <<"%">>, t[id].Folder) })

\* WHERE folder LIKE '%' || folderPath || '%'
SearchByFolder(t, folderPath) ==
    Find(t, { id \in NotDeleted(t) :
                LikeMatch(<<"%">> \o folderPath \o <<"%">>, t[id].Folder) })

\* First(&bookmark, id): the row, or "not found"
GetByIDFound(t, id) == id \in NotDeleted(t)

\* (mutant) no validation
ValidateNothing(b) == TRUE

\* Bookmark.Validate
Validate(b) == b.Folder # Empty

\* (mutant) the column default 'default' substituted for an empty category
GormCreateDefault(t, b) ==
    Append(t, [Folder |-> b.Folder,
               Category |-> IF b.Category = Empty
                              THEN <<"d", "e", "f", "a", "u", "l", "t">>
                              ELSE b.Category,
               Deleted |-> FALSE])

\* gormDB.Create(b): INSERT, the primary key is the next rowid
GormCreate(t, b) ==
    Append(t, [Folder |-> b.Folder, Category |-> b.Category, Deleted |-> FALSE])

\* (mutant) an INSERT of a new row instead of the UPDATE
GormSaveInsert(t, b) ==
    Append(t, [Folder |-> b.Folder, Category |-> b.Category, Deleted |-> FALSE])

\* gormDB.Save(b) with a primary key: UPDATE of every column, and when no
\* non-deleted row has the key, INSERT .. ON CONFLICT DO UPDATE of every column
GormSave(t, b) ==
    [t EXCEPT ![b.ID] =
        [Folder |-> b.Folder, Category |-> b.Category, Deleted |-> FALSE]]

\* gormDB.Delete(b): UPDATE deleted_at WHERE id = b.ID AND deleted_at IS NULL
GormDelete(t, id) ==
    IF id \in DOMAIN t THEN [t EXCEPT ![id].Deleted = TRUE] ELSE t

NoCall == [op |-> "none"]

\* no add command runs as a process of its own
NoAdds == << >>

(***************************************************************************)
(* The service operations                                                  *)
(***************************************************************************)
\* the bookmark structs callers hold: built fresh (ID 0) or read from the table
BookmarkArgs(t) ==
    [ID : 0..Len(t), Folder : FolderArgs, Category : CategoryArgs]

Save(b) ==
    /\ b \in BookmarkArgs(table)
    /\ UNCHANGED tuiVars
    /\ IF ~Validate(b)
         THEN /\ table' = table
              /\ last' = [op |-> "Save", arg |-> b, err |-> TRUE, id |-> b.ID]
       ELSE IF b.ID = 0
         THEN /\ Len(table) < MaxRows
              /\ table' = GormCreate(table, b)
              /\ last' = [op |-> "Save", arg |-> b, err |-> FALSE,
                          id |-> Len(table) + 1]
       ELSE /\ table' = GormSave(table, b)
            /\ last' = [op |-> "Save", arg |-> b, err |-> FALSE, id |-> b.ID]

\* Delete reads only b.ID: a struct read from the table, or a fresh one
DeleteArgs(t) ==
    { Bookmark(t, id) : id \in DOMAIN t }
        \cup [ID : {0}, Folder : AbsPaths, Category : {Empty}]

\* (mutant) the ID check left out
DeleteRefusedNever(b) == FALSE

\* "cannot delete bookmark: ID is required"
DeleteRefused(b) == b.ID = 0

\* hit: whether the UPDATE found a non-deleted row (RowsAffected = 1)
Delete(b) ==
    /\ b \in DeleteArgs(table)
    /\ UNCHANGED tuiVars
    /\ IF DeleteRefused(b)
         THEN /\ table' = table
              /\ last' = [op |-> "Delete", arg |-> b, err |-> TRUE, hit |-> FALSE]
         ELSE /\ table' = GormDelete(table, b.ID)
              /\ last' = [op |-> "Delete", arg |-> b, err |-> FALSE,
                          hit |-> b.ID \in NotDeleted(table)]

GetByID(id) ==
    /\ id \in 0..MaxRows
    /\ last' = [op |-> "GetByID", arg |-> id, err |-> ~GetByIDFound(table, id),
                out |-> IF GetByIDFound(table, id)
                          THEN <<Bookmark(table, id)>> ELSE << >>]
    /\ UNCHANGED <<table, tuiVars>>

ListCall(limit, offset) ==
    /\ last' = [op |-> "List", arg |-> <<limit, offset>>, err |-> FALSE,
                out |-> List(table, limit, offset)]
    /\ UNCHANGED <<table, tuiVars>>

SearchByCategoryCall(category) ==
    /\ last' = [op |-> "SearchByCategory", arg |-> category, err |-> FALSE,
                out |-> SearchByCategory(table, category)]
    /\ UNCHANGED <<table, tuiVars>>

SearchByFolderCall(folderPath) ==
    /\ last' = [op |-> "SearchByFolder", arg |-> folderPath, err |-> FALSE,
                out |-> SearchByFolder(table, folderPath)]
    /\ UNCHANGED <<table, tuiVars>>

(***************************************************************************)
(* The add command                                                         *)
(***************************************************************************)
\* the arguments of "add [category]"
AddArgs == { << >> } \cup { <<c>> : c \in CategoryArgs }

\* "Determine category": args[0] when given and not empty
AddCategory(args) ==
    IF Len(args) > 0 /\ args[1] # Empty THEN args[1] ELSE Empty

\* (mutant) a bookmark counts as existing only with the same category too
ExactMatchSameCategory(existing, absPath, category) ==
    \E k \in DOMAIN existing :
        existing[k].Folder = absPath /\ existing[k].Category = category

\* "Check for exact match" over the bookmarks SearchByFolder returned
ExactMatch(existing, absPath, category) ==
    \E k \in DOMAIN existing : existing[k].Folder = absPath

\* runAdd in working directory absPath: SearchByFolder, the exact-match loop,
\* then Save of a new bookmark
RunAdd(absPath, args) ==
    LET category == AddCategory(args)
        existing == SearchByFolder(table, absPath)
        newBookmark == [ID |-> 0, Folder |-> absPath, Category |-> category]
        result(err, created, id) ==
            [op |-> "add", arg |-> <<absPath, args>>, err |-> err,
             created |-> created, id |-> id]
    IN  /\ UNCHANGED tuiVars
        /\ IF ExactMatch(existing, absPath, category)
             THEN /\ table' = table
                  /\ last' = result(FALSE, FALSE, 0)
           ELSE IF ~Validate(newBookmark)
             THEN /\ table' = table
                  /\ last' = result(TRUE, FALSE, 0)
           ELSE /\ Len(table) < MaxRows
                /\ table' = GormCreate(table, newBookmark)
                /\ last' = result(FALSE, TRUE, Len(table) + 1)

(***************************************************************************)
(* The list view: package confirm (the delete dialog) and package list     *)
(***************************************************************************)
AllCat == <<"A", "l", "l">>
DefaultCat == <<"d", "e", "f", "a", "u", "l", "t">>

\* a nil *bookmark.Bookmark
Nil == [ID |-> 0, Folder |-> Empty, Category |-> Empty]

\* the keys pressed, by their tea.KeyMsg String()
Keys == { "y", "n", "q", "esc", "enter", "x", "d", "/", "tab", "shift+tab",
          "ctrl+u", "ctrl+c", "o", "up", "down", "backspace", "a" }

\* the keys that are printable characters, which a focused text input takes
Runes == { "y", "n", "q", "x", "d", "/", "o", "a" }

KeyMsg(key) == [k |-> "key", key |-> key]

\* commands, run by the runtime on their own goroutines
LoadCmd == [k |-> "load"]
DeleteCmd(b) == [k |-> "delete", b |-> b]
OpenCmd(path) == [k |-> "open", path |-> path]

\* messages
LoadedMsg(bookmarks, categories) ==
    [k |-> "loaded", bookmarks |-> bookmarks, categories |-> categories]
FilteredMsg(bookmarks) == [k |-> "filtered", bookmarks |-> bookmarks]
DeletedMsg == [k |-> "deleted"]
ErrMsg == [k |-> "err"]
QuitMsg == [k |-> "quit"]

IsCmd(x) == x.k \in { "load", "delete", "open" }

\* ORDER BY date_created DESC: the rows in reverse order of creation
RECURSIVE NewestFirst(_)
NewestFirst(ids) ==
    IF ids = {} THEN << >>
    ELSE LET newest == CHOOSE i \in ids : \A j \in ids : j <= i
         IN  <<newest>> \o NewestFirst(ids \ {newest})

\* bookmark.List(service, limit, offset) of package bookmark
ListByDate(t, limit, offset) ==
    LET o == NewestFirst(NotDeleted(t))
    IN  Page([k \in 1..Len(o) |-> Bookmark(t, o[k])], limit, offset)

\* sort.Strings
RECURSIVE SortStrings(_)
SortStrings(S) ==
    IF S = {} THEN << >>
    ELSE LET least == CHOOSE x \in S : \A y \in S \ {x} : StrLess(x, y)
         IN  <<least>> \o SortStrings(S \ {least})

\* strings.TrimSpace
RECURSIVE TrimSpace(_)
TrimSpace(s) ==
    IF s = Empty THEN s
    ELSE IF s[1] = " " THEN TrimSpace(Tail0(s))
    ELSE IF s[Len(s)] = " " THEN TrimSpace(SubSeq(s, 1, Len(s) - 1))
    ELSE s

\* ---- package confirm ----
\* confirm.New: item 0 is "No", item 1 is "Yes"
ConfirmNew ==
    [visible |-> FALSE, chosen |-> FALSE, result |-> FALSE, bookmark |-> Nil,
     cursor |-> 0]

\* (mutant) Show leaves the selection where the previous dialog ended
ConfirmShowKeepCursor(c, b) ==
    [c EXCEPT !.bookmark = b, !.visible = TRUE, !.chosen = FALSE,
              !.result = FALSE]

\* confirm.Model.Show
ConfirmShow(c, b) ==
    [c EXCEPT !.bookmark = b, !.visible = TRUE, !.chosen = FALSE,
              !.result = FALSE, !.cursor = 0]

\* the dialog's list.Update: cursor keys move within the two items,
\* ctrl+c is the list's ForceQuit binding
ChoiceListUpdate(cursor, msg) ==
    IF msg.k # "key" THEN cursor
    ELSE IF msg.key = "up" THEN Max(0, cursor - 1)
    ELSE IF msg.key = "down" THEN Min(1, cursor + 1)
    ELSE cursor

\* (mutant) Enter always confirms
ConfirmEnterYes(c) == TRUE

\* the value of the item Enter selects
ConfirmEnter(c) == c.cursor = 1

\* (mutant) a choice is recorded and the dialog stays visible
ConfirmUpdateStaysVisible(c, msg) ==
    LET resolve(result) ==
            [c |-> [c EXCEPT !.result = result, !.chosen = TRUE],
             quit |-> FALSE]
    IN  IF ~c.visible THEN [c |-> c, quit |-> FALSE]
        ELSE IF msg.k = "key" /\ msg.key = "enter" THEN resolve(ConfirmEnter(c))
        ELSE IF msg.k = "key" /\ msg.key \in {"esc", "q", "n"} THEN resolve(FALSE)
        ELSE IF msg.k = "key" /\ msg.key = "y" THEN resolve(TRUE)
        ELSE [c |-> [c EXCEPT !.cursor = ChoiceListUpdate(c.cursor, msg)],
              quit |-> msg.k = "key" /\ msg.key = "ctrl+c"]

\* confirm.Model.Update: the model and whether the command is tea.Quit
ConfirmUpdate(c, msg) ==
    LET resolve(result) ==
            [c |-> [c EXCEPT !.result = result, !.chosen = TRUE, !.visible = FALSE],
             quit |-> FALSE]
    IN  IF ~c.visible THEN [c |-> c, quit |-> FALSE]
        ELSE IF msg.k = "key" /\ msg.key = "enter" THEN resolve(ConfirmEnter(c))
        ELSE IF msg.k = "key" /\ msg.key \in {"esc", "q", "n"} THEN resolve(FALSE)
        ELSE IF msg.k = "key" /\ msg.key = "y" THEN resolve(TRUE)
        ELSE [c |-> [c EXCEPT !.cursor = ChoiceListUpdate(c.cursor, msg)],
              quit |-> msg.k = "key" /\ msg.key = "ctrl+c"]

\* ---- package list ----
\* list.New
NewModel(initialCategory) ==
    [categories |-> <<AllCat>>, activeCategory |-> initialCategory,
     filter |-> Empty, filterFocused |-> FALSE,
     bookmarks |-> << >>, allBookmarks |-> << >>, cursor |-> 0,
     confirmDialog |-> ConfirmNew, showingDialog |-> FALSE, err |-> FALSE]

\* (mutant) the tabs a fixed enumeration
LoadBookmarksFixedTabs(t) ==
    LoadedMsg(ListByDate(t, 0, 0), <<AllCat, DefaultCat>>)

\* the message LoadBookmarks' command returns when List succeeds
LoadBookmarks(t) ==
    LET allBookmarks == ListByDate(t, 0, 0)
        categorySet == { AllCat, DefaultCat }
                        \cup { allBookmarks[k].Category : k \in DOMAIN allBookmarks }
    IN  LoadedMsg(allBookmarks, <<AllCat>> \o SortStrings(categorySet \ {AllCat}))

\* the bookmarks of the active category
OfActiveCategory(mm) ==
    IF mm.activeCategory = AllCat THEN mm.allBookmarks
    ELSE SelectSeq(mm.allBookmarks, LAMBDA b : b.Category = mm.activeCategory)

\* (mutant) a change of category lists the bookmarks again
FilterByCategoryReload(mm) == LoadCmd

\* the message filterByCategory's command returns
FilterByCategory(mm) == FilteredMsg(OfActiveCategory(mm))

\* (mutant) the filter applied to the bookmarks of every category
ApplyFilterAnyCategory(mm) == FilteredMsg(mm.allBookmarks)

\* the message applyFilter's command returns
ApplyFilter(mm) ==
    LET filterText == ToLower(TrimSpace(mm.filter))
        source == OfActiveCategory(mm)
    IN  FilteredMsg(
            IF filterText = Empty THEN source
            ELSE SelectSeq(source, LAMBDA b :
                    \/ Contains(ToLower(b.Folder), filterText)
                    \/ Contains(ToLower(b.Category), filterText)))

\* the index of the active category in the tabs, 0 when it is none of them
ActiveIndex(mm) ==
    IF \E i \in DOMAIN mm.categories : mm.categories[i] = mm.activeCategory
      THEN CHOOSE i \in DOMAIN mm.categories :
            /\ mm.categories[i] = mm.activeCategory
            /\ \A j \in 1..(i - 1) : mm.categories[j] # mm.activeCategory
      ELSE 0

\* (mutant) the next category without the wrap to the first
NextCategoryNoWrap(mm) ==
    LET i == ActiveIndex(mm) IN
    IF i = 0 \/ i = Len(mm.categories) THEN mm
    ELSE [mm EXCEPT !.activeCategory = mm.categories[i + 1]]

\* nextCategory and prevCategory, without the command they return
NextCategory(mm) ==
    LET i == ActiveIndex(mm) IN
    IF i = 0 THEN mm
    ELSE [mm EXCEPT !.activeCategory = mm.categories[(i % Len(mm.categories)) + 1]]

PrevCategory(mm) ==
    LET i == ActiveIndex(mm)
        n == Len(mm.categories)
    IN  IF i = 0 THEN mm
        ELSE [mm EXCEPT !.activeCategory = mm.categories[((i - 2 + n) % n) + 1]]

\* textinput.Model.Update of the filter, the cursor being at the end
TextInput(value, key) ==
    IF key \in Runes THEN Append(value, key)
    ELSE IF key = "backspace" /\ value # Empty THEN SubSeq(value, 1, Len(value) - 1)
    ELSE IF key = "ctrl+u" THEN Empty
    ELSE value

\* (mutant) the first item, wherever the cursor is
SelectedItemFirst(mm) ==
    IF 0 < Len(mm.bookmarks) THEN mm.bookmarks[1] ELSE Nil

\* m.list.SelectedItem()
SelectedItem(mm) ==
    IF mm.cursor < Len(mm.bookmarks) THEN mm.bookmarks[mm.cursor + 1] ELSE Nil

\* m.list.Update(msg) of the main list: cursor keys, then the cursor is
\* kept within the items
MainListUpdate(mm, msg) ==
    LET n == Len(mm.bookmarks)
        moved == IF msg.k # "key" THEN mm.cursor
                 ELSE IF msg.key = "up" THEN mm.cursor - 1
                 ELSE IF msg.key = "down" THEN mm.cursor + 1
                 ELSE mm.cursor
    IN  [mm EXCEPT !.cursor = Max(0, Min(moved, n - 1))]

\* Update while the dialog shows: the model and the commands returned
UpdateDialog(mm, msg) ==
    LET r == ConfirmUpdate(mm.confirmDialog, msg)
        m1 == [mm EXCEPT !.confirmDialog = r.c]
        confirmCmd == IF r.quit THEN <<QuitMsg>> ELSE << >>
    IN  IF r.c.chosen
          THEN IF r.c.result /\ r.c.bookmark # Nil
                 THEN [m |-> [m1 EXCEPT !.showingDialog = FALSE],
                       cmds |-> <<DeleteCmd(r.c.bookmark)>>]
                 ELSE [m |-> [m1 EXCEPT !.showingDialog = FALSE],
                       cmds |-> confirmCmd]
          ELSE [m |-> m1, cmds |-> confirmCmd]

\* (mutant) Ctrl+C quits from the filter input as well
UpdateFilterKeyQuit(mm, key) ==
    IF key = "ctrl+c" THEN [m |-> mm, cmds |-> <<QuitMsg>>]
    ELSE IF key \in {"esc", "enter"}
      THEN [m |-> [mm EXCEPT !.filterFocused = FALSE], cmds |-> << >>]
    ELSE [m |-> [mm EXCEPT !.filter = TextInput(mm.filter, key)], cmds |-> << >>]

\* Update on a key while the filter input is focused
UpdateFilterKey(mm, key) ==
    IF key = "esc"
      THEN [m |-> [mm EXCEPT !.filterFocused = FALSE], cmds |-> << >>]
    ELSE IF key = "enter"
      THEN LET m1 == [mm EXCEPT !.filterFocused = FALSE]
           IN  [m |-> m1, cmds |-> <<ApplyFilter(m1)>>]
    ELSE LET m1 == [mm EXCEPT !.filter = TextInput(mm.filter, key)]
         IN  [m |-> m1, cmds |-> <<ApplyFilter(m1)>>]

\* (mutant) no key of the main interface is bound
UpdateBrowseKeyUnbound(mm, key) ==
    [m |-> MainListUpdate(mm, KeyMsg(key)), cmds |-> << >>]

\* Update on a key of the main interface
UpdateBrowseKey(mm, key) ==
    IF key \in {"q", "esc", "ctrl+c"}
      THEN [m |-> mm, cmds |-> <<QuitMsg>>]
    ELSE IF key = "/"
      THEN [m |-> MainListUpdate([mm EXCEPT !.filterFocused = TRUE], KeyMsg(key)),
            cmds |-> << >>]
    ELSE IF key = "ctrl+u"
      THEN LET m1 == [mm EXCEPT !.filter = Empty]
           IN  [m |-> m1, cmds |-> <<ApplyFilter(m1)>>]
    ELSE IF key = "tab"
      THEN [m |-> NextCategory(mm), cmds |-> <<FilterByCategory(NextCategory(mm))>>]
    ELSE IF key = "shift+tab"
      THEN [m |-> PrevCategory(mm), cmds |-> <<FilterByCategory(PrevCategory(mm))>>]
    ELSE IF key \in {"x", "d"}
      THEN IF SelectedItem(mm) # Nil
             THEN [m |-> MainListUpdate(
                            [mm EXCEPT !.confirmDialog =
                                            ConfirmShow(mm.confirmDialog, SelectedItem(mm)),
                                       !.showingDialog = TRUE],
                            KeyMsg(key)),
                   cmds |-> << >>]
             ELSE [m |-> MainListUpdate(mm, KeyMsg(key)), cmds |-> << >>]
    ELSE IF key \in {"o", "enter"} /\ SelectedItem(mm) # Nil
      THEN [m |-> mm, cmds |-> <<OpenCmd(SelectedItem(mm).Folder)>>]
    ELSE [m |-> MainListUpdate(mm, KeyMsg(key)), cmds |-> << >>]

\* list.Model.Update: the model and the commands it returns
Update(mm, msg) ==
    IF mm.showingDialog THEN UpdateDialog(mm, msg)
    ELSE IF msg.k = "key"
      THEN IF mm.filterFocused THEN UpdateFilterKey(mm, msg.key)
           ELSE UpdateBrowseKey(mm, msg.key)
    ELSE IF msg.k = "loaded"
      THEN LET m1 == [mm EXCEPT !.allBookmarks = msg.bookmarks,
                                !.categories = msg.categories,
                                !.activeCategory =
                                    IF @ = Empty THEN AllCat ELSE @]
           IN  [m |-> m1, cmds |-> <<FilterByCategory(m1)>>]
    ELSE IF msg.k = "filtered"
      THEN [m |-> MainListUpdate([mm EXCEPT !.bookmarks = msg.bookmarks], msg),
            cmds |-> << >>]
    ELSE IF msg.k = "deleted"
      THEN [m |-> mm, cmds |-> <<LoadCmd>>]
    ELSE IF msg.k = "err"
      THEN [m |-> MainListUpdate([mm EXCEPT !.err = TRUE], msg), cmds |-> << >>]
    ELSE [m |-> MainListUpdate(mm, msg), cmds |-> << >>]

(***************************************************************************)
(* The list view's program: keys, commands and messages                    *)
(***************************************************************************)
\* the runtime starts the commands an Update returned
Started(cmds) == SetToBag({ cmds[k] : k \in DOMAIN cmds })

\* a key is pressed
Key(key) ==
    LET r == Update(m, KeyMsg(key)) IN
    /\ running
    /\ pressed < MaxKeys
    /\ Len(r.m.filter) <= MaxFilterLen
    /\ BagCardinality(inflight) + Len(r.cmds) <= MaxInFlight
    /\ m' = r.m
    /\ inflight' = inflight (+) Started(r.cmds)
    /\ pressed' = pressed + 1
    /\ UNCHANGED <<adds, table, last, running>>

\* a message is delivered to Update; tea.QuitMsg ends the program instead
Deliver(msg) ==
    /\ running
    /\ BagIn(msg, inflight) /\ ~IsCmd(msg)
    /\ IF msg = QuitMsg
         THEN /\ running' = FALSE
              /\ inflight' = inflight (-) SetToBag({msg})
              /\ m' = m
         ELSE LET r == Update(m, msg) IN
              /\ m' = r.m
              /\ inflight' = (inflight (-) SetToBag({msg})) (+) Started(r.cmds)
              /\ running' = running
    /\ UNCHANGED <<adds, table, last, pressed>>

\* LoadBookmarks' command runs: List, then the categories
ExecLoad ==
    /\ BagIn(LoadCmd, inflight)
    /\ inflight' = (inflight (-) SetToBag({LoadCmd}))
                        (+) SetToBag({LoadBookmarks(table)})
    /\ UNCHANGED <<adds, table, last, m, running, pressed>>

\* deleteBookmark's command runs: Bookmark.Delete
ExecDelete(cmd) ==
    /\ BagIn(cmd, inflight) /\ cmd.k = "delete"
    /\ IF DeleteRefused(cmd.b)
         THEN /\ table' = table
              /\ inflight' = (inflight (-) SetToBag({cmd})) (+) SetToBag({ErrMsg})
         ELSE /\ table' = GormDelete(table, cmd.b.ID)
              /\ inflight' = (inflight (-) SetToBag({cmd})) (+) SetToBag({DeletedMsg})
    /\ UNCHANGED <<adds, last, m, running, pressed>>

\* openFolder's command runs: the file manager opens, and no message follows
ExecOpen(cmd) ==
    /\ BagIn(cmd, inflight) /\ cmd.k = "open"
    /\ inflight' = inflight (-) SetToBag({cmd})
    /\ UNCHANGED <<adds, table, last, m, running, pressed>>

\* a command fails (the database or the file manager returns an error)
ExecFails(cmd) ==
    /\ BagIn(cmd, inflight) /\ IsCmd(cmd)
    /\ inflight' = (inflight (-) SetToBag({cmd})) (+) SetToBag({ErrMsg})
    /\ UNCHANGED <<adds, table, last, m, running, pressed>>

vars == <<table, last, m, inflight, running, pressed, adds>>

\* ---- the storage service, called directly ----
Init ==
    /\ table = << >>
    /\ last = NoCall
    /\ m = NewModel(AllCat)
    /\ inflight = EmptyBag
    /\ running = FALSE
    /\ pressed = 0
    /\ adds = NoAdds

Next ==
    \/ \E b \in BookmarkArgs(table) : Save(b)
    \/ \E b \in DeleteArgs(table) : Delete(b)
    \/ \E id \in 0..MaxRows : GetByID(id)
    \/ \E limit \in -1..MaxPage, offset \in -1..MaxPage : ListCall(limit, offset)
    \/ \E category \in CategoryQueries : SearchByCategoryCall(category)
    \/ \E folderPath \in FolderQueries : SearchByFolderCall(folderPath)

Spec == Init /\ [][Next]_vars

\* the command line alone: add commands and deletions, one after another
NextAdd ==
    \/ \E absPath \in AbsPaths, args \in AddArgs : RunAdd(absPath, args)
    \/ \E b \in DeleteArgs(table) : Delete(b)

SpecAdd == Init /\ [][NextAdd]_vars

\* ---- add commands run at the same time, each a process of its own with
\* its own connection to the one database file; SQLite runs each statement
\* as a whole, and nothing joins the SELECT of the check and the INSERT ----
\* an add command started in directory absPath with arguments args
AddProcess(absPath, args) ==
    [pc |-> "check", absPath |-> absPath, args |-> args,
     err |-> FALSE, created |-> FALSE, id |-> 0]

\* runAdd up to the exact-match loop: SearchByFolder, then the loop
AddCheck(p) ==
    LET a == adds[p]
        existing == SearchByFolder(table, a.absPath)
    IN  /\ a.pc = "check"
        /\ adds' = [adds EXCEPT ![p].pc =
                        IF ExactMatch(existing, a.absPath, AddCategory(a.args))
                          THEN "done" ELSE "save"]
        /\ UNCHANGED <<table, last, m, inflight, running, pressed>>

\* runAdd from "Create new bookmark": Service.Save of the new bookmark
AddSave(p) ==
    LET a == adds[p]
        newBookmark == [ID |-> 0, Folder |-> a.absPath,
                        Category |-> AddCategory(a.args)]
    IN  /\ a.pc = "save"
        /\ IF ~Validate(newBookmark)
             THEN /\ table' = table
                  /\ adds' = [adds EXCEPT ![p].pc = "done", ![p].err = TRUE]
             ELSE /\ Len(table) < MaxRows
                  /\ table' = GormCreate(table, newBookmark)
                  /\ adds' = [adds EXCEPT ![p].pc = "done", ![p].created = TRUE,
                                          ![p].id = Len(table) + 1]
        /\ UNCHANGED <<last, m, inflight, running, pressed>>

InitAdds ==
    /\ table = << >>
    /\ last = NoCall
    /\ m = NewModel(AllCat)
    /\ inflight = EmptyBag
    /\ running = FALSE
    /\ pressed = 0
    /\ adds \in [1..MaxAdds ->
                    { AddProcess(absPath, args) :
                        absPath \in AbsPaths, args \in AddArgs }]

NextAdds ==
    \/ \E p \in DOMAIN adds : AddCheck(p)
    \/ \E p \in DOMAIN adds : AddSave(p)

SpecAdds == InitAdds /\ [][NextAdds]_vars

\* ---- the export command ----
\* bookmark.SearchByCategory of package bookmark: the rows of the category,
\* newest first
SearchByCategoryByDate(t, category) ==
    LET o == NewestFirst({ id \in NotDeleted(t) : t[id].Category = category })
    IN  [k \in 1..Len(o) |-> Bookmark(t, o[k])]

\* the filters of "export [category] [filter]"
ExportFilters == { Empty, <<"A">>, <<"b">>, <<"/">> }

\* the arguments of "export [category] [filter]"
ExportArgs ==
    { << >> } \cup { <<c>> : c \in CategoryQueries }
              \cup { <<c, f>> : c \in CategoryQueries, f \in ExportFilters }

\* (mutant) the filter compared as it is written
ExportFilterSameCase(bookmarks, filter) ==
    SelectSeq(bookmarks, LAMBDA b :
        Contains(b.Folder, filter) \/ Contains(b.Category, filter))

\* runExport: "Apply filter if specified"
ExportFilter(bookmarks, filter) ==
    IF filter = Empty THEN bookmarks
    ELSE LET filterLower == ToLower(filter)
         IN  SelectSeq(bookmarks, LAMBDA b :
                \/ Contains(ToLower(b.Folder), filterLower)
                \/ Contains(ToLower(b.Category), filterLower))

\* runExport: "Convert to export format", the JSON object of a bookmark
ExportBookmark(b) == [id |-> b.ID, folder |-> b.Folder, category |-> b.Category]

\* runExport: the JSON array written to stdout
RunExport(args) ==
    LET category == IF Len(args) > 0 /\ args[1] # Empty THEN args[1] ELSE Empty
        filter == IF Len(args) > 1 THEN args[2] ELSE Empty
        fetched == IF category # Empty
                     THEN SearchByCategoryByDate(table, category)
                     ELSE ListByDate(table, 0, 0)
        bookmarks == ExportFilter(fetched, filter)
    IN  /\ last' = [op |-> "export", arg |-> args, err |-> FALSE,
                    out |-> [k \in 1..Len(bookmarks) |-> ExportBookmark(bookmarks[k])]]
        /\ UNCHANGED table
        /\ UNCHANGED tuiVars

\* add commands, deletions and exports, one after another
NextExport ==
    \/ \E absPath \in AbsPaths, args \in AddArgs : RunAdd(absPath, args)
    \/ \E b \in DeleteArgs(table) : Delete(b)
    \/ \E args \in ExportArgs : RunExport(args)

SpecExport == Init /\ [][NextExport]_vars

\* ---- the list command ----
\* the tables the list command may find: bookmarks added earlier, one of
\* them deleted again in the last
SeedRow(folder, category, deleted) ==
    [Folder |-> folder, Category |-> category, Deleted |-> deleted]

SeedTables ==
    { << >>,
      <<SeedRow(<<"/", "A">>, <<"a">>, FALSE), SeedRow(<<"/", "a", "b">>, Empty, FALSE)>>,
      <<SeedRow(<<"/", "A">>, <<"a">>, TRUE), SeedRow(<<"/", "a", "b">>, <<"a">>, FALSE)>> }

\* the arguments of "list [category]"
ListArgs == { << >>, <<Empty>>, <<<<"a">>>>, <<<<"b">>>> }

\* (mutant) the category argument ignored
InitialCategoryAll(args) == AllCat

\* runList: "Parse arguments"
InitialCategory(args) ==
    IF Len(args) > 0 /\ args[1] # Empty THEN args[1] ELSE AllCat

\* runList: list.New, then the program starts Init's command
InitTui ==
    /\ table \in SeedTables
    /\ \E args \in ListArgs :
            /\ last = [op |-> "list", arg |-> args]
            /\ m = NewModel(InitialCategory(args))
    /\ inflight = SetToBag({LoadCmd})
    /\ running = TRUE
    /\ pressed = 0
    /\ adds = NoAdds

NextTui ==
    \/ \E key \in Keys : Key(key)
    \/ \E msg \in BagToSet(inflight) : Deliver(msg)
    \/ ExecLoad
    \/ \E cmd \in BagToSet(inflight) : ExecDelete(cmd)
    \/ \E cmd \in BagToSet(inflight) : ExecOpen(cmd)
    \/ \E cmd \in BagToSet(inflight) : ExecFails(cmd)

SpecTui == InitTui /\ [][NextTui]_vars

\* ---- the list view when every command succeeds, under the runtime's
\* scheduling: a command that was returned runs on its goroutine, and a
\* message that was sent is read by the event loop; the user may stop
\* pressing keys at any time ----
NextTuiOk ==
    \/ \E key \in Keys : Key(key)
    \/ \E msg \in BagToSet(inflight) : Deliver(msg)
    \/ ExecLoad
    \/ \E cmd \in BagToSet(inflight) : ExecDelete(cmd)
    \/ \E cmd \in BagToSet(inflight) : ExecOpen(cmd)

FairTui ==
    /\ WF_vars(\E msg \in BagToSet(inflight) : Deliver(msg))
    /\ WF_vars(ExecLoad)
    /\ WF_vars(\E cmd \in BagToSet(inflight) : ExecDelete(cmd))
    /\ WF_vars(\E cmd \in BagToSet(inflight) : ExecOpen(cmd))

SpecTuiFair == InitTui /\ [][NextTuiOk]_vars /\ FairTui

\* ---- package edit: the category edit dialog, driven through its exported
\* methods; m is the edit.Model and pressed counts the keys it was given ----
\* ti.CharLimit
CharLimit == 50

\* the keys given to the dialog, by their tea.KeyMsg String()
EditKeys == { "enter", "esc", "ctrl+c", "a", " ", "backspace" }

\* the keys that are printable characters
EditRunes == { "a", " " }

\* the bookmarks the dialog is shown for
EditBookmarks ==
    { [ID |-> 1, Folder |-> <<"/", "A">>, Category |-> <<"a">>],
      [ID |-> 2, Folder |-> <<"/", "a", "b">>, Category |-> DefaultCat] }

\* textinput.Model.SetValue: the value is cut at the character limit
SetValue(value) ==
    IF Len(value) > CharLimit THEN SubSeq(value, 1, CharLimit) ELSE value

\* textinput.Model.Update, the cursor being at the end
EditTextInput(value, msg) ==
    IF msg.k # "key" THEN value
    ELSE IF msg.key \in EditRunes
      THEN IF Len(value) < CharLimit THEN Append(value, msg.key) ELSE value
    ELSE IF msg.key = "backspace" /\ value # Empty
      THEN SubSeq(value, 1, Len(value) - 1)
    ELSE value

\* edit.New
EditNew ==
    [textInput |-> Empty, bookmark |-> Nil, visible |-> FALSE,
     result |-> Empty, submitted |-> FALSE, cancelled |-> FALSE]

\* edit.Model.Show
EditShow(e, b) ==
    [e EXCEPT !.bookmark = b, !.visible = TRUE, !.submitted = FALSE,
              !.cancelled = FALSE, !.result = Empty,
              !.textInput = SetValue(b.Category)]

\* edit.Model.Hide
EditHide(e) ==
    [e EXCEPT !.visible = FALSE, !.bookmark = Nil, !.submitted = FALSE,
              !.cancelled = FALSE, !.textInput = SetValue(Empty)]

\* (mutant) Update handles the keys whether or not the dialog is visible
EditUpdateAlways(e, msg) ==
    IF msg.k = "key" /\ msg.key = "enter"
      THEN [e EXCEPT !.result = TrimSpace(e.textInput), !.submitted = TRUE,
                     !.visible = FALSE]
    ELSE IF msg.k = "key" /\ msg.key \in {"esc", "ctrl+c"}
      THEN [e EXCEPT !.cancelled = TRUE, !.visible = FALSE]
    ELSE [e EXCEPT !.textInput = EditTextInput(e.textInput, msg)]

\* edit.Model.Update
EditUpdate(e, msg) ==
    IF ~e.visible THEN e
    ELSE IF msg.k = "key" /\ msg.key = "enter"
      THEN [e EXCEPT !.result = TrimSpace(e.textInput), !.submitted = TRUE,
                     !.visible = FALSE]
    ELSE IF msg.k = "key" /\ msg.key \in {"esc", "ctrl+c"}
      THEN [e EXCEPT !.cancelled = TRUE, !.visible = FALSE]
    ELSE [e EXCEPT !.textInput = EditTextInput(e.textInput, msg)]

\* edit.Model.HasResult
EditHasResult(e) == e.submitted \/ e.cancelled

\* edit.Model.GetResult
EditGetResult(e) ==
    [NewCategory |-> e.result, Bookmark |-> e.bookmark,
     Submitted |-> e.submitted, Cancelled |-> e.cancelled]

\* the caller shows the dialog for bookmark b
CallShow(b) ==
    /\ m' = EditShow(m, b)
    /\ UNCHANGED <<adds, table, last, inflight, running, pressed>>

\* the caller hides the dialog
CallHide ==
    /\ m' = EditHide(m)
    /\ UNCHANGED <<adds, table, last, inflight, running, pressed>>

\* the caller passes a key to the dialog's Update
CallUpdate(key) ==
    /\ pressed < MaxKeys
    /\ m' = EditUpdate(m, KeyMsg(key))
    /\ pressed' = pressed + 1
    /\ UNCHANGED <<adds, table, last, inflight, running>>

InitEdit ==
    /\ table = << >>
    /\ last = NoCall
    /\ m = EditNew
    /\ inflight = EmptyBag
    /\ running = TRUE
    /\ pressed = 0
    /\ adds = NoAdds

NextEdit ==
    \/ \E b \in EditBookmarks : CallShow(b)
    \/ CallHide
    \/ \E key \in EditKeys : CallUpdate(key)

SpecEdit == InitEdit /\ [][NextEdit]_vars

(***************************************************************************)
(* Properties of the storage service                                       *)
(***************************************************************************)
\* the primary keys of the bookmarks a query returned
Ids(out) == { out[k].ID : k \in DOMAIN out }

\* a sequence without the entries whose ID is id
RECURSIVE Without(_, _)
Without(out, id) ==
    IF out = << >> THEN << >>
    ELSE IF out[1].ID = id THEN Without(Tail0(out), id)
    ELSE <<out[1]>> \o Without(Tail0(out), id)

\* C1: after Delete(b) succeeds on a stored bookmark b, List returns exactly
\* the bookmarks listed before minus b, no SearchByCategory and no
\* SearchByFolder returns b, and GetByID(b.ID) fails; and no read ever
\* returns a row that is marked deleted.
C1_DeleteExcludesFromReads ==
    /\ [][\A b \in DeleteArgs(table) :
            (Delete(b) /\ b.ID \in NotDeleted(table)) =>
                /\ ~last'.err
                /\ List(table', 0, 0) = Without(List(table, 0, 0), b.ID)
                /\ b.ID \in Ids(List(table, 0, 0))
                /\ \A c \in CategoryQueries :
                        b.ID \notin Ids(SearchByCategory(table', c))
                /\ \A f \in FolderQueries :
                        b.ID \notin Ids(SearchByFolder(table', f))
                /\ ~GetByIDFound(table', b.ID)]_vars
    /\ [](\A id \in DOMAIN table : table[id].Deleted =>
            /\ id \notin Ids(List(table, 0, 0))
            /\ \A c \in CategoryQueries : id \notin Ids(SearchByCategory(table, c))
            /\ \A f \in FolderQueries : id \notin Ids(SearchByFolder(table, f))
            /\ ~GetByIDFound(table, id))

\* C1 witness: a Delete of a stored bookmark has returned without error,
\* while another bookmark is still listed
C1_Witness ==
    /\ last.op = "Delete" /\ ~last.err /\ last.hit
    /\ table[last.arg.ID].Deleted
    /\ List(table, 0, 0) # << >>

\* C4: Save of a bookmark with an empty folder fails, whatever its category
\* and ID, and leaves the table as it was.
C4_EmptyFolderRejected ==
    [][\A b \in BookmarkArgs(table) :
        (Save(b) /\ b.Folder = Empty) => (last'.err /\ table' = table)]_vars

\* C4 witness: a Save with an empty folder and a non-empty category has
\* failed on a table that holds bookmarks
C4_Witness ==
    /\ last.op = "Save" /\ last.err
    /\ last.arg.Folder = Empty /\ last.arg.Category # Empty
    /\ NotDeleted(table) # {}

\* C5: Save accepts every category, empty or never stored before, and the
\* bookmark read back by GetByID carries exactly that category.
C5_CategoryStoredAsGiven ==
    [][\A b \in BookmarkArgs(table) :
        (Save(b) /\ b.Folder # Empty) =>
            /\ ~last'.err
            /\ GetByIDFound(table', last'.id)
            /\ Bookmark(table', last'.id).Category = b.Category]_vars

\* C5 witness: a bookmark with an empty category was created and its row
\* holds the empty category, beside a row with another category
C5_Witness ==
    /\ last.op = "Save" /\ ~last.err /\ last.arg.ID = 0
    /\ last.arg.Category = Empty
    /\ table[last.id].Category = Empty
    /\ \E id \in DOMAIN table : table[id].Category # Empty

\* C6: a valid Save with ID 0 inserts one new row under a fresh non-zero ID
\* and changes no other row; a valid Save with the ID of a stored bookmark
\* keeps the ID and the number of rows, changes no other row, and GetByID
\* then returns the new folder and category.
C6_SaveCreatesOrUpdates ==
    [][\A b \in BookmarkArgs(table) :
        (Save(b) /\ b.Folder # Empty) =>
            IF b.ID = 0
              THEN /\ Len(table') = Len(table) + 1
                   /\ last'.id # 0 /\ last'.id \notin DOMAIN table
                   /\ \A id \in DOMAIN table : table'[id] = table[id]
                   /\ GetByIDFound(table', last'.id)
                   /\ Bookmark(table', last'.id) =
                        [ID |-> last'.id, Folder |-> b.Folder,
                         Category |-> b.Category]
              ELSE /\ last'.id = b.ID
                   /\ Len(table') = Len(table)
                   /\ \A id \in DOMAIN table \ {b.ID} : table'[id] = table[id]
                   /\ GetByIDFound(table', b.ID)
                   /\ Bookmark(table', b.ID) = b]_vars

\* C6 witness: a stored bookmark was saved again with another folder and
\* category, next to a second row
C6_Witness ==
    /\ last.op = "Save" /\ ~last.err /\ last.arg.ID # 0
    /\ Len(table) = MaxRows
    /\ Bookmark(table, last.arg.ID) = last.arg
    /\ \E id \in DOMAIN table : table[id].Folder # last.arg.Folder

\* C7: Delete of a bookmark with ID 0 returns an error and leaves the table
\* as it was, so List returns what it returned before.
C7_DeleteWithoutID ==
    [][\A b \in DeleteArgs(table) :
        (Delete(b) /\ b.ID = 0) =>
            /\ last'.err
            /\ table' = table
            /\ List(table', 0, 0) = List(table, 0, 0)]_vars

\* C7 witness: a Delete with ID 0 has failed and bookmarks are still listed
C7_Witness ==
    /\ last.op = "Delete" /\ last.err /\ last.arg.ID = 0
    /\ Len(List(table, 0, 0)) = MaxRows

\* C8: SearchByCategory(c) returns, without error and each once, exactly the
\* non-deleted bookmarks whose category is character for character c.
C8_SearchByCategoryExact ==
    last.op = "SearchByCategory" =>
        /\ ~last.err
        /\ Ids(last.out) =
            { id \in DOMAIN table : ~table[id].Deleted /\ table[id].Category = last.arg }
        /\ Len(last.out) = Cardinality(Ids(last.out))
        /\ \A k \in DOMAIN last.out : last.out[k] = Bookmark(table, last.out[k].ID)

\* C8 witness: a search returned one bookmark and left out another one
\* whose category differs
C8_Witness ==
    /\ last.op = "SearchByCategory"
    /\ Len(last.out) = 1
    /\ \E id \in DOMAIN table : ~table[id].Deleted /\ table[id].Category # last.arg

\* C9 (as claimed): SearchByFolder(s) returns exactly the non-deleted
\* bookmarks whose folder contains s as a substring.
C9_SearchByFolderSubstring ==
    last.op = "SearchByFolder" =>
        /\ ~last.err
        /\ Ids(last.out) =
            { id \in DOMAIN table : ~table[id].Deleted /\ Contains(table[id].Folder, last.arg) }

\* C10 (as claimed): List(limit, offset) over n bookmarks returns
\* min(limit, max(0, n - offset)) bookmarks when limit > 0 and
\* max(0, n - offset) when limit <= 0.
C10_ListCountAsClaimed ==
    last.op = "List" =>
        LET n == Cardinality(NotDeleted(table))
            limit == last.arg[1]
            offset == last.arg[2]
        IN  Len(last.out) = IF limit > 0 THEN Min(limit, Max(0, n - offset))
                                        ELSE Max(0, n - offset)

\* C10 (amended): with skip = max(0, offset), List(limit, offset) returns the
\* bookmarks skip+1 .. of the ordering: min(limit, max(0, n - skip)) of them
\* when limit > 0 and max(0, n - skip) when limit <= 0; all n when limit <= 0
\* and offset <= 0.
C10_ListPage ==
    last.op = "List" =>
        LET all == List(table, 0, 0)
            n == Cardinality(NotDeleted(table))
            limit == last.arg[1]
            skip == Max(0, last.arg[2])
            count == IF limit > 0 THEN Min(limit, Max(0, n - skip))
                                  ELSE Max(0, n - skip)
        IN  /\ ~last.err
            /\ Ids(all) = NotDeleted(table) /\ Len(all) = n
            /\ Len(last.out) = count
            /\ last.out = SubSeq(all, skip + 1, skip + count)
            /\ (limit <= 0 /\ last.arg[2] <= 0) => last.out = all

\* C10 witness: a List with a limit and an offset returned the second of
\* two bookmarks
C10_Witness ==
    /\ last.op = "List" /\ last.arg = <<1, 1>>
    /\ Cardinality(NotDeleted(table)) = MaxRows
    /\ Len(last.out) = 1
    /\ last.out[1] = List(table, 0, 0)[2]

(***************************************************************************)
(* Properties of the add command                                           *)
(***************************************************************************)
\* C3: add in a directory that is the folder of a non-deleted bookmark
\* creates nothing and leaves the table as it was, whatever category is
\* given; so under add and delete alone no two non-deleted bookmarks share
\* a folder.
C3_AddDeduplicates ==
    /\ [][\A absPath \in AbsPaths, args \in AddArgs :
            (/\ RunAdd(absPath, args)
             /\ \E id \in NotDeleted(table) : table[id].Folder = absPath)
                => (table' = table /\ ~last'.created)]_vars
    /\ [](\A i, j \in NotDeleted(table) :
            table[i].Folder = table[j].Folder => i = j)

\* C3 witness: add with a category was run where a bookmark with another
\* category exists, and created nothing
C3_Witness ==
    /\ last.op = "add" /\ ~last.created /\ ~last.err
    /\ last.arg[2] # << >>
    /\ \E id \in NotDeleted(table) :
        /\ table[id].Folder = last.arg[1]
        /\ table[id].Category # AddCategory(last.arg[2])


\* ---- C2 ----
\* the dialog is resolved with Yes: key y, or Enter while "Yes" is selected
ResolvedYes(key) ==
    /\ m.showingDialog
    /\ key = "y" \/ (key = "enter" /\ m.confirmDialog.cursor = 1)

\* the dialog is resolved with No: n, q, Esc, or Enter while "No" is selected
ResolvedNo(key) ==
    /\ m.showingDialog
    /\ key \in {"n", "q", "esc"} \/ (key = "enter" /\ m.confirmDialog.cursor = 0)

\* the calls of Bookmark.Delete that bag b has started and not yet made
DeleteCalls(b) == { c \in BagToSet(b) : c.k = "delete" }

\* C2: in the list view a call of the storage Delete is started only by the
\* key press that resolves the confirmation dialog with Yes (y, or Enter
\* while "Yes" is selected), for the bookmark the dialog shows; the table
\* changes only when such a call is made; resolving the dialog with No (n,
\* q, Esc, or Enter while "No" is selected) starts no call, closes the
\* dialog and leaves the table as it is.
C2_DeleteOnlyAfterYes ==
    /\ DeleteCalls(inflight) = {}
    /\ [][ /\ (\E c \in DeleteCalls(inflight') :
                    CopiesIn(c, inflight') > CopiesIn(c, inflight))
              => \E key \in Keys :
                    /\ Key(key)
                    /\ ResolvedYes(key)
                    /\ inflight' = inflight
                            (+) SetToBag({DeleteCmd(m.confirmDialog.bookmark)})
           /\ table' # table
              => \E c \in DeleteCalls(inflight) :
                    /\ ExecDelete(c)
                    /\ table' = GormDelete(table, c.b.ID)
           /\ \A key \in Keys :
                (ResolvedNo(key) /\ Key(key))
                    => /\ table' = table
                       /\ inflight' = inflight
                       /\ ~m'.showingDialog ]_vars

\* Yes was chosen for a bookmark of the table, and the call made: the row is
\* deleted and bookmarkDeletedMsg is on its way
C2_Witness ==
    /\ ~m.showingDialog
    /\ m.confirmDialog.chosen /\ m.confirmDialog.result
    /\ m.confirmDialog.bookmark.ID \in DOMAIN table
    /\ table[m.confirmDialog.bookmark.ID].Deleted
    /\ BagIn(DeletedMsg, inflight)


\* ---- C11 ----
\* the loaded bookmarks of the active category whose folder or category
\* contains the filter text, case-insensitively
Matching(mm) ==
    SelectSeq(mm.allBookmarks, LAMBDA b :
        /\ mm.activeCategory = AllCat \/ b.Category = mm.activeCategory
        /\ \/ Contains(ToLower(b.Folder), ToLower(mm.filter))
           \/ Contains(ToLower(b.Category), ToLower(mm.filter)))

\* C11 (as claimed): whenever no command and no message is pending, the
\* bookmarks displayed are exactly the loaded bookmarks of the active
\* category that match the filter text.
C11_DisplayedMatchesFilter ==
    inflight = EmptyBag => m.bookmarks = Matching(m)


\* ---- C12 ----
\* tabs is "All" followed by the strings of values other than "All", each
\* once, in ascending order
IsTabs(tabs, values) ==
    /\ Len(tabs) >= 1 /\ tabs[1] = AllCat
    /\ { tabs[k] : k \in 2..Len(tabs) } = values \ {AllCat}
    /\ \A i, j \in 2..Len(tabs) : i < j => StrLess(tabs[i], tabs[j])

\* the category values of the non-deleted bookmarks of table t
CategoriesPresent(t) == { Bookmark(t, id).Category : id \in NotDeleted(t) }

\* the message a load adds to those in flight satisfies P
LoadAdds(P(_)) ==
    ExecLoad => \E msg \in BagToSet(inflight') :
                    /\ msg.k = "loaded"
                    /\ CopiesIn(msg, inflight') > CopiesIn(msg, inflight)
                    /\ P(msg)

Browsing(mm) == ~mm.showingDialog /\ ~mm.filterFocused

\* the active category is one of the tabs
ActiveIsTab(mm) == \E i \in DOMAIN mm.categories : mm.categories[i] = mm.activeCategory

\* the position of the active category among the tabs
TabIndex(mm) == CHOOSE i \in DOMAIN mm.categories : mm.categories[i] = mm.activeCategory

\* the model after key has been pressed n times in a row
RECURSIVE Pressed(_, _, _)
Pressed(mm, key, n) ==
    IF n = 0 THEN mm ELSE Pressed(Update(mm, KeyMsg(key)).m, key, n - 1)

FilterEntry(mm) == ~mm.showingDialog /\ mm.filterFocused

\* the commands and messages of kind k started by this step
StartedOfKind(k) ==
    { c \in BagToSet(inflight') :
        c.k = k /\ CopiesIn(c, inflight') > CopiesIn(c, inflight) }

\* C14: in browsing mode "/" enters filter-text-entry; in filter-text-entry
\* Esc and Enter return to browsing, every other key leaves the filter
\* focused, a printable one being appended to the filter text; and no key
\* pressed there quits the program, opens the delete dialog, changes the
\* active category, opens a folder or changes the table.
C14_FilterEntryKeys ==
    [][ pressed' # pressed =>
          /\ (Browsing(m) /\ Key("/")) => FilterEntry(m')
          /\ FilterEntry(m) =>
                /\ running'
                /\ StartedOfKind("quit") = {}
                /\ StartedOfKind("open") = {}
                /\ StartedOfKind("delete") = {}
                /\ ~m'.showingDialog
                /\ m'.activeCategory = m.activeCategory
                /\ table' = table
                /\ \A key \in {"esc", "enter"} :
                      Key(key) => (Browsing(m') /\ m'.filter = m.filter)
                /\ ~FilterEntry(m') => (Key("esc") \/ Key("enter"))
                /\ \A key \in Runes :
                      Key(key) => m'.filter = Append(m.filter, key) ]_vars

\* "q" was typed into the filter: it is the filter text, the filter is
\* still focused, and the program runs with no quit on its way
C14_Witness ==
    /\ running
    /\ FilterEntry(m)
    /\ m.filter = <<"q">>
    /\ ~BagIn(QuitMsg, inflight)


\* ---- C15 ----
\* C15: the list view starts with one List on its way; after that a List
\* is started only when it receives bookmarkDeletedMsg, which only a
\* Delete that returned no error sends; no key press starts a List or
\* changes the table, and the only key press that starts a Delete is the
\* one resolving the dialog with Yes; opening a folder leaves the table as
\* it is.
C15_StorageOnlyOnLoadAndDelete ==
    /\ inflight = SetToBag({LoadCmd})
    /\ [][ /\ StartedOfKind("load") # {}
                => (BagIn(DeletedMsg, inflight) /\ Deliver(DeletedMsg))
           /\ StartedOfKind("deleted") # {}
                => \E c \in DeleteCalls(inflight) :
                        ExecDelete(c) /\ ~DeleteRefused(c.b)
           /\ pressed' # pressed =>
                /\ table' = table
                /\ StartedOfKind("load") = {}
                /\ StartedOfKind("delete") # {}
                        => \A key \in Keys : Key(key) => ResolvedYes(key)
           /\ \A c \in BagToSet(inflight) : ExecOpen(c) => table' = table
           /\ \A msg \in BagToSet(inflight) :
                (msg.k \in {"filtered", "loaded", "err"} /\ Deliver(msg))
                    => (table' = table /\ StartedOfKind("load") = {}) ]_vars

\* the bookmarks were loaded, one was deleted on confirmation, and the List
\* that follows the delete is on its way
C15_Witness ==
    /\ m.allBookmarks # << >>
    /\ m.confirmDialog.chosen /\ m.confirmDialog.result
    /\ m.confirmDialog.bookmark.ID \in DOMAIN table
    /\ table[m.confirmDialog.bookmark.ID].Deleted
    /\ BagIn(LoadCmd, inflight)


\* ---- C16 ----
\* C16 (as claimed): when the list view receives the error of a failed
\* command, the program terminates: it stops running, or its quit is on
\* the way.
C16_ErrorTerminates ==
    [][ (BagIn(ErrMsg, inflight) /\ Deliver(ErrMsg))
            => (~running' \/ BagIn(QuitMsg, inflight')) ]_vars


\* ---- C17 ----
\* the non-deleted bookmarks export is to write for the category and the
\* filter, as JSON objects
Exported(category, filter) ==
    { [id |-> id, folder |-> table[id].Folder, category |-> table[id].Category] :
        id \in { i \in DOMAIN table :
                    /\ ~table[i].Deleted
                    /\ category = Empty \/ table[i].Category = category
                    /\ \/ filter = Empty
                       \/ Contains(ToLower(table[i].Folder), ToLower(filter))
                       \/ Contains(ToLower(table[i].Category), ToLower(filter)) } }

\* C17: export [category] [filter] writes, each once, exactly the
\* non-deleted bookmarks whose category is the category argument (all of
\* them when it is omitted or empty) and, when a filter is given and not
\* empty, whose folder or category contains it, letter case ignored; when
\* nothing matches it writes the empty array.
C17_ExportSelects ==
    last.op = "export" =>
        LET args == last.arg
            category == IF Len(args) >= 1 THEN args[1] ELSE Empty
            filter == IF Len(args) >= 2 THEN args[2] ELSE Empty
        IN  /\ ~last.err
            /\ { last.out[k] : k \in DOMAIN last.out } = Exported(category, filter)
            /\ Len(last.out) = Cardinality(Exported(category, filter))
            /\ Exported(category, filter) = {} => last.out = << >>

\* export "" A over "/A" and "/ab": the filter "A" selects both, "/ab" by
\* its lower-case "a"
C17_Witness ==
    /\ last.op = "export"
    /\ last.arg = <<Empty, <<"A">>>>
    /\ Len(last.out) = 2
    /\ \E k \in DOMAIN last.out : last.out[k].folder = <<"/", "a", "b">>


\* ---- C18 ----
\* the non-deleted bookmarks of the table in the category, all of them for
\* "All"
InCategory(category) ==
    { Bookmark(table, id) :
        id \in { i \in NotDeleted(table) :
                    category = AllCat \/ table[i].Category = category } }

\* C18: as long as no key has been pressed, the active category of list is
\* its category argument when that is given and not empty, and "All"
\* otherwise; and once the initial load has completed without error and no
\* result is pending, the list displays, each once, exactly the non-deleted
\* bookmarks of that category (all of them for "All").
C18_InitialCategory ==
    pressed = 0 =>
        LET args == last.arg
            category == IF Len(args) > 0 /\ args[1] # Empty THEN args[1] ELSE AllCat
        IN  /\ last.op = "list"
            /\ m.activeCategory = category
            /\ (inflight = EmptyBag /\ ~m.err) =>
                    /\ { m.bookmarks[k] : k \in DOMAIN m.bookmarks } = InCategory(category)
                    /\ Len(m.bookmarks) = Cardinality(InCategory(category))

\* list a, loaded over two bookmarks of which one has the category "a"
C18_Witness ==
    /\ pressed = 0 /\ inflight = EmptyBag /\ ~m.err
    /\ last.arg = << <<"a">> >>
    /\ Cardinality(NotDeleted(table)) = 2
    /\ Len(m.bookmarks) = 1 /\ m.bookmarks[1].Category = <<"a">>


\* ---- C19 ----
QuitKeys == { "q", "esc", "ctrl+c" }

\* C19 (as claimed): pressing q, Esc or Ctrl+C quits the program, whatever
\* the list view is showing.
C19_QuitKeysAlways ==
    [][ \A key \in QuitKeys : Key(key) => StartedOfKind("quit") # {} ]_vars

\* C19 (amended): in browsing mode q, Esc and Ctrl+C each return tea.Quit,
\* and the program ends when its message arrives; in filter-text-entry none
\* of them quits; in the delete dialog q and Esc resolve it with No
\* without quitting, and Ctrl+C quits.
C19_QuitKeys ==
    [][ /\ \A key \in QuitKeys : Key(key) =>
              /\ Browsing(m) => (StartedOfKind("quit") = {QuitMsg} /\ m' = m)
              /\ FilterEntry(m) => StartedOfKind("quit") = {}
              /\ m.showingDialog =>
                    IF key = "ctrl+c"
                      THEN StartedOfKind("quit") = {QuitMsg} /\ m'.showingDialog
                      ELSE StartedOfKind("quit") = {} /\ ~m'.showingDialog
        /\ (BagIn(QuitMsg, inflight) /\ Deliver(QuitMsg)) => ~running'
        /\ ~running' => (~running \/ Deliver(QuitMsg)) ]_vars

\* one key was pressed, in browsing mode, and the program has ended
C19_Witness ==
    /\ ~running
    /\ pressed = 1
    /\ Browsing(m)


\* ---- C20 ----
\* the loaded bookmarks of the active category of mm, in the order loaded
LoadedOfActive(mm) ==
    SelectSeq(mm.allBookmarks, LAMBDA b :
        mm.activeCategory = AllCat \/ b.Category = mm.activeCategory)

\* C20: in browsing mode Ctrl+U empties the filter text and starts one
\* command, whose result is every loaded bookmark of the active category;
\* the list view, receiving that result next, displays exactly these.
C20_ClearFilter ==
    /\ [](Browsing(m) =>
            LET r == Update(m, KeyMsg("ctrl+u"))
            IN  /\ r.m.filter = Empty
                /\ Len(r.cmds) = 1
                /\ Update(r.m, r.cmds[1]).m.bookmarks = LoadedOfActive(m))
    /\ [][ (Browsing(m) /\ Key("ctrl+u")) =>
                /\ m'.filter = Empty
                /\ Browsing(m')
                /\ inflight' = inflight (+) SetToBag({FilteredMsg(LoadedOfActive(m))}) ]_vars

\* the filter "x" has emptied the list of the two loaded bookmarks, in
\* browsing mode with nothing pending: Ctrl+U here empties the filter text
\* and its result displays both again
C20_Witness ==
    /\ Browsing(m)
    /\ pressed < MaxKeys
    /\ inflight = EmptyBag
    /\ m.filter = <<"x">>
    /\ m.activeCategory = AllCat
    /\ Len(m.allBookmarks) = 2
    /\ m.bookmarks = << >>
    /\ LET r == Update(m, KeyMsg("ctrl+u"))
       IN  /\ r.m.filter = Empty
           /\ Update(r.m, r.cmds[1]).m.bookmarks = m.allBookmarks

\* bookmark id is marked deleted in the table and is still displayed
DeletedDisplayed(id) ==
    /\ id \in DOMAIN table /\ id \notin NotDeleted(table)
    /\ id \in Ids(m.bookmarks)

\* C21 (as claimed): once a confirmed delete has succeeded, the deleted
\* bookmark eventually disappears from the displayed list (or the program
\* ends), for every interleaving of further key presses with the delivery
\* of the delete, load and filter results, every command being run and
\* every message being delivered. (A run that uses up its keys is left
\* out, so that a run that refutes this ends with nothing in flight while
\* keys could still be pressed.)
C21_DeletedDisappears ==
    \A id \in 1..MaxRows :
        DeletedDisplayed(id) ~>
            (id \notin Ids(m.bookmarks) \/ ~running \/ pressed = MaxKeys)

\* C22: every time the delete dialog opens, the selected choice is "No",
\* however the previous dialog ended; pressing Enter then, without moving
\* the selection, closes the dialog, starts no delete and leaves the table
\* as it is.
C22_DialogOpensOnNo ==
    [][(~m.showingDialog /\ m'.showingDialog) =>
         /\ m'.confirmDialog.visible
         /\ m'.confirmDialog.cursor = 0
         /\ ~ConfirmEnter(m'.confirmDialog)
         /\ LET r == Update(m', KeyMsg("enter"))
            IN  /\ ~r.m.showingDialog
                /\ r.cmds = << >>
                /\ r.m.bookmarks = m'.bookmarks]_vars

\* the previous dialog ended on "Yes" chosen with the cursor, and x opens
\* the dialog again
C22_Witness ==
    /\ running /\ ~m.showingDialog
    /\ m.confirmDialog.cursor = 1 /\ m.confirmDialog.result
    /\ Update(m, KeyMsg("x")).m.showingDialog
    /\ Update(m, KeyMsg("x")).m.confirmDialog.cursor = 0
    /\ pressed < MaxKeys

\* C23: the delete key opens the dialog only when an item is selected, and
\* pressed on an empty list it changes nothing; the dialog holds the
\* bookmark that was selected when it opened, keeps it whatever message is
\* read while it shows, and a delete is started only from the showing
\* dialog, for that bookmark.
C23_DeletesTheSelected ==
    [][/\ (~m.showingDialog /\ m'.showingDialog) =>
            /\ m.cursor < Len(m.bookmarks)
            /\ m'.confirmDialog.bookmark = m.bookmarks[m.cursor + 1]
       /\ (m.showingDialog /\ m'.showingDialog) =>
            m'.confirmDialog.bookmark = m.confirmDialog.bookmark
       /\ \A c \in StartedOfKind("delete") :
            m.showingDialog /\ c = DeleteCmd(m.confirmDialog.bookmark)
       /\ (pressed' # pressed /\ Browsing(m) /\ m.bookmarks = << >>) =>
            \A key \in {"x", "d"} :
                Key(key) => (m' = m /\ inflight' = inflight)]_vars

\* a delete has been started for the second of two displayed bookmarks,
\* which the cursor is on
C23_Witness ==
    /\ Len(m.bookmarks) = 2 /\ m.cursor = 1
    /\ ~m.showingDialog
    /\ DeleteCmd(m.bookmarks[2]) \in DeleteCalls(inflight)

\* the delete key is pressed on an empty list
C23_WitnessEmpty ==
    /\ running /\ Browsing(m) /\ m.bookmarks = << >>
    /\ m.allBookmarks # << >> /\ pressed \in 1..(MaxKeys - 1)

\* C24: the category edit dialog resolves at most once per Show. Enter
\* hides it with submitted set and the result equal to the input with the
\* surrounding white space removed; Esc and Ctrl+C hide it with cancelled
\* set; submitted and cancelled are never both set, and neither is set
\* while the dialog is visible; while the dialog is not visible Update
\* leaves the model as it is, whatever the message.
C24_EditResolvesOnce ==
    /\ [](/\ ~(m.submitted /\ m.cancelled)
          /\ m.visible => ~EditHasResult(m)
          /\ ~m.visible =>
               /\ \A key \in EditKeys : EditUpdate(m, KeyMsg(key)) = m
               /\ EditUpdate(m, LoadedMsg(<< >>, << >>)) = m)
    /\ [][/\ (m.visible /\ CallUpdate("enter")) =>
               /\ ~m'.visible /\ m'.submitted /\ ~m'.cancelled
               /\ m'.result = TrimSpace(m.textInput)
               /\ EditGetResult(m').NewCategory = TrimSpace(m.textInput)
          /\ \A key \in {"esc", "ctrl+c"} :
               (m.visible /\ CallUpdate(key)) =>
                   /\ ~m'.visible /\ m'.cancelled /\ ~m'.submitted
          /\ (EditHasResult(m') /\ ~EditHasResult(m)) =>
               /\ m.visible /\ ~m'.visible
               /\ \E key \in {"enter", "esc", "ctrl+c"} : CallUpdate(key)
          /\ (EditHasResult(m) /\ pressed' # pressed) => m' = m]_vars

\* the dialog was submitted with an input that had white space around it,
\* and another key has been passed to it since
C24_Witness ==
    /\ m.submitted /\ ~m.visible
    /\ m.result = <<"a">> /\ m.textInput = <<"a", " ">>
    /\ pressed >= 3

\* C25 (as claimed): once a load has been handled the active category is
\* one of the tabs (so that Tab and Shift+Tab change it whenever there are
\* two tabs or more), also when the program was started with an arbitrary
\* category argument and after the last bookmark of the active category
\* was deleted.
C25_ActiveIsATab ==
    [][\A msg \in BagToSet(inflight) :
          (msg.k = "loaded" /\ ~m.showingDialog /\ Deliver(msg)) =>
              /\ ActiveIsTab(m')
              /\ Len(m'.categories) >= 2 =>
                    Pressed(m', "tab", 1).activeCategory # m'.activeCategory]_vars

\* the lists that correspond to the filter text and the active category of
\* mm: what filterByCategory and what applyFilter compute from mm
ResultsFor(mm) == { FilterByCategory(mm).bookmarks, ApplyFilter(mm).bookmarks }

\* C26 (as claimed): when several results of filter and category commands
\* are in flight and nothing else, whichever of them is delivered last
\* leaves displayed a list that corresponds to the final filter text and
\* active category.
C26_FinalFilterWins ==
    ( /\ running /\ ~m.showingDialog
      /\ BagCardinality(inflight) >= 2
      /\ \A c \in BagToSet(inflight) : c.k = "filtered" )
    => \A final \in BagToSet(inflight) :
          Update(m, final).m.bookmarks \in ResultsFor(Update(m, final).m)

\* the step applies message msg as its handler in list.Model.Update does
Applied(msg) ==
    /\ msg.k = "loaded" =>
          /\ m'.allBookmarks = msg.bookmarks
          /\ m'.categories = msg.categories
          /\ StartedOfKind("filtered") # {}
    /\ msg.k = "filtered" => m'.bookmarks = msg.bookmarks
    /\ msg.k = "deleted" => StartedOfKind("load") # {}
    /\ msg.k = "err" => m'.err

\* C27 (as claimed): no result of a command is lost: every loaded,
\* filtered, deleted and error message that is delivered is applied by its
\* handler, in whatever mode the view is, also while the delete dialog is
\* showing.
C27_NoResultLost ==
    [][\A msg \in BagToSet(inflight) :
          (msg.k \in {"loaded", "filtered", "deleted", "err"} /\ Deliver(msg))
              => Applied(msg)]_vars

\* C28: the filter input is never focused while the delete dialog is
\* showing, and showingDialog is true exactly when the confirm dialog is
\* visible.
C28_DialogExcludesFilter ==
    /\ ~(m.filterFocused /\ m.showingDialog)
    /\ m.showingDialog <=> m.confirmDialog.visible

\* the dialog is showing for a bookmark found with the filter, after the
\* filter input was left
C28_Witness ==
    /\ m.showingDialog /\ m.confirmDialog.visible
    /\ m.filter # Empty /\ ~m.filterFocused

\* a dialog has been resolved after the filter input was used
C28_WitnessResolved ==
    /\ ~m.showingDialog /\ m.confirmDialog.chosen
    /\ m.filterFocused

\* C29 (as claimed): add commands run at the same time as separate
\* processes leave at most one non-deleted bookmark for each folder, for
\* every interleaving of their existence checks and their inserts.
C29_OnePerFolder ==
    \A i, j \in NotDeleted(table) :
        table[i].Folder = table[j].Folder => i = j

\* every bookmark stored for folder absPath is marked deleted, and there is one
DeletedOnly(absPath) ==
    /\ \E i \in DOMAIN table : table[i].Folder = absPath
    /\ \A i \in DOMAIN table : table[i].Folder = absPath => table[i].Deleted

\* C30: once the bookmark of a folder has been deleted, add run in that
\* folder is not blocked by it: it reports no error and creates a new
\* bookmark for the folder, not deleted, whose ID differs from the ID of
\* every record stored before, and it leaves those records as they are.
C30_AddAfterDelete ==
    [][\A absPath \in AbsPaths, args \in AddArgs :
          (DeletedOnly(absPath) /\ RunAdd(absPath, args)) =>
              /\ last'.created /\ ~last'.err
              /\ last'.id \notin DOMAIN table
              /\ last'.id \in DOMAIN table'
              /\ table'[last'.id].Folder = absPath
              /\ ~table'[last'.id].Deleted
              /\ table'[last'.id].Category = AddCategory(args)
              /\ \A i \in DOMAIN table : table'[i] = table[i]]_vars

\* add has created a bookmark for a folder whose earlier bookmark is deleted
C30_Witness ==
    /\ last.op = "add" /\ last.created
    /\ last.id \in DOMAIN table /\ ~table[last.id].Deleted
    /\ \E i \in 1..(last.id - 1) :
          table[i].Folder = table[last.id].Folder /\ table[i].Deleted

====
